---- MODULE Spec2Model ----
(***************************************************************************)
(* A model of generate_icon.py: create_app_icon draws a fixed scene on a   *)
(* 1024 x 1024 canvas, exports ten resized copies into AppIcon.appiconset  *)
(* and writes the static manifest Contents.json beside them.               *)
(*                                                                         *)
(* Text (file names, role labels, manifest fields) is modelled as          *)
(* sequences of one-character strings so that formatting a file name and   *)
(* parsing a size or a scale are computed, not assumed.                    *)
(***************************************************************************)
EXTENDS Integers, Sequences, FiniteSets, TLC

VARIABLES
    pc,         \* the statement create_app_icon is at; "done" / "failed" once the process ended
    i,          \* the index of the running for loop (bars, export targets)
    canvas,     \* img: the canvas, as its size, fill and the primitives drawn on it so far
    dirExists,  \* whether the output directory exists
    fs,         \* the entries of the output directory: name -> content
    effects,    \* what the running process did outside the canvas so far, in order
    prev,       \* how the previous process ended: "none", "ok" or "failed"
    runs        \* the number of processes started so far

vars == <<pc, i, canvas, dirExists, fs, effects, prev, runs>>

(***************************************************************************)
(* Bounds of the model.                                                    *)
(***************************************************************************)
\* the script is started at most MaxRuns times against the same directory
MaxRuns == 2
\* the output directory holds at most MaxStale entries before the first run
MaxStale == 2

(***************************************************************************)
(* Text.                                                                   *)
(***************************************************************************)
DigitChars == <<"0", "1", "2", "3", "4", "5", "6", "7", "8", "9">>

IsDigit(c) == \E d \in 1..10 : DigitChars[d] = c

DigitVal(c) == (CHOOSE d \in 1..10 : DigitChars[d] = c) - 1

\* int(s) for a string of decimal digits
RECURSIVE ParseInt(_)
ParseInt(s) ==
    IF Len(s) = 0 THEN 0
    ELSE 10 * ParseInt(SubSeq(s, 1, Len(s) - 1)) + DigitVal(s[Len(s)])

\* the longest prefix of s made of decimal digits
RECURSIVE LeadingDigits(_)
LeadingDigits(s) ==
    IF Len(s) = 0 \/ ~IsDigit(s[1]) THEN <<>>
    ELSE <<s[1]>> \o LeadingDigits(Tail(s))

(***************************************************************************)
(* Colours and geometry: the literals of create_app_icon.                  *)
(***************************************************************************)
size == 1024

bg_color == "#2C3E50"
pane_color == "#ECF0F1"
accent_color == "#3498DB"
arrow_color == "#E74C3C"

margin == 80

left_pane_x == 150
left_pane_y == 200
pane_width == 320
pane_height == 624
right_pane_x == 554

file_y_start == 250
file_height == 50
file_spacing == 70

arrow_y == 512
arrow_start_x == left_pane_x + pane_width + 20
arrow_end_x == right_pane_x - 20
arrow_width == 25
arrow_y2 == 612

\* range(5) and range(3): the number of bars of the left and of the right pane
LeftFiles == 5
RightFiles == 3

(***************************************************************************)
(* The canvas and the drawing primitives.                                  *)
(***************************************************************************)
\* Image.new('RGB', (size, size), color)
ImageNew(s, color) == [w |-> s, h |-> s, fill |-> color, prims |-> <<>>]

\* draw.rounded_rectangle([x0, y0, x1, y1], radius=r, fill=c)
RoundedRectangle(x0, y0, x1, y1, r, c) ==
    [shape |-> "rounded_rectangle", xy |-> <<x0, y0, x1, y1>>, radius |-> r, fill |-> c]

\* draw.rectangle([x0, y0, x1, y1], fill=c)
Rectangle(x0, y0, x1, y1, c) ==
    [shape |-> "rectangle", xy |-> <<x0, y0, x1, y1>>, fill |-> c]

\* draw.polygon(points, fill=c)
Polygon(points, c) == [shape |-> "polygon", pts |-> points, fill |-> c]

\* a draw call mutates img in place
Draw(img, p) == [img EXCEPT !.prims = Append(@, p)]

Background ==
    RoundedRectangle(margin, margin, size - margin, size - margin, 120, bg_color)

LeftPane ==
    RoundedRectangle(left_pane_x, left_pane_y,
                     left_pane_x + pane_width, left_pane_y + pane_height, 30, pane_color)

RightPane ==
    RoundedRectangle(right_pane_x, left_pane_y,
                     right_pane_x + pane_width, left_pane_y + pane_height, 30, pane_color)

\* a left bar whose lower edge multiplies the height by the pitch
LeftFileTall(k) ==
    LET y == file_y_start + (k * file_spacing)
    IN  RoundedRectangle(left_pane_x + 30, y,
                         left_pane_x + pane_width - 30, y + file_height * file_spacing,
                         8, accent_color)

\* the bar of loop index k (0-based, as range() counts) of the left pane
LeftFile(k) ==
    LET y == file_y_start + (k * file_spacing)
    IN  RoundedRectangle(left_pane_x + 30, y,
                         left_pane_x + pane_width - 30, y + file_height, 8, accent_color)

\* a right bar placed by a value that differs from one process to the next
RightFileByRun(k) ==
    LET y == file_y_start + (k * file_spacing) + runs
    IN  RoundedRectangle(right_pane_x + 30, y,
                         right_pane_x + pane_width - 30, y + file_height, 8, accent_color)

\* the bar of loop index k of the right pane
RightFile(k) ==
    LET y == file_y_start + (k * file_spacing)
    IN  RoundedRectangle(right_pane_x + 30, y,
                         right_pane_x + pane_width - 30, y + file_height, 8, accent_color)

RightShaft ==
    Rectangle(arrow_start_x, arrow_y - arrow_width \div 2,
              arrow_end_x - 40, arrow_y + arrow_width \div 2, arrow_color)

\* a head whose tip is drawn at the pane's edge instead of the gap's end
arrow_head_points_long ==
    << <<arrow_end_x - 40, arrow_y - 50>>,
       <<right_pane_x + 20, arrow_y>>,
       <<arrow_end_x - 40, arrow_y + 50>> >>

arrow_head_points ==
    << <<arrow_end_x - 40, arrow_y - 50>>,
       <<arrow_end_x, arrow_y>>,
       <<arrow_end_x - 40, arrow_y + 50>> >>

RightHead == Polygon(arrow_head_points, arrow_color)

LeftShaft ==
    Rectangle(arrow_start_x + 40, arrow_y2 - arrow_width \div 2,
              arrow_end_x, arrow_y2 + arrow_width \div 2, arrow_color)

arrow_head_points2 ==
    << <<arrow_start_x + 40, arrow_y2 - 50>>,
       <<arrow_start_x, arrow_y2>>,
       <<arrow_start_x + 40, arrow_y2 + 50>> >>

LeftHead == Polygon(arrow_head_points2, arrow_color)

(***************************************************************************)
(* The export targets, the file names and the manifest.                    *)
(***************************************************************************)
\* a table whose last target is larger than the canvas
sizes_upsampled ==
    << <<16, <<"1", "6", "x", "1", "6">>>>,
       <<32, <<"1", "6", "x", "1", "6", "@", "2", "x">>>>,
       <<32, <<"3", "2", "x", "3", "2">>>>,
       <<64, <<"3", "2", "x", "3", "2", "@", "2", "x">>>>,
       <<128, <<"1", "2", "8", "x", "1", "2", "8">>>>,
       <<256, <<"1", "2", "8", "x", "1", "2", "8", "@", "2", "x">>>>,
       <<256, <<"2", "5", "6", "x", "2", "5", "6">>>>,
       <<512, <<"2", "5", "6", "x", "2", "5", "6", "@", "2", "x">>>>,
       <<512, <<"5", "1", "2", "x", "5", "1", "2">>>>,
       <<2048, <<"5", "1", "2", "x", "5", "1", "2", "@", "2", "x">>>> >>

\* a table in which two targets carry the same role label
sizes_dup_role ==
    << <<16, <<"1", "6", "x", "1", "6">>>>,
       <<32, <<"1", "6", "x", "1", "6", "@", "2", "x">>>>,
       <<32, <<"1", "6", "x", "1", "6", "@", "2", "x">>>>,
       <<64, <<"3", "2", "x", "3", "2", "@", "2", "x">>>>,
       <<128, <<"1", "2", "8", "x", "1", "2", "8">>>>,
       <<256, <<"1", "2", "8", "x", "1", "2", "8", "@", "2", "x">>>>,
       <<256, <<"2", "5", "6", "x", "2", "5", "6">>>>,
       <<512, <<"2", "5", "6", "x", "2", "5", "6", "@", "2", "x">>>>,
       <<512, <<"5", "1", "2", "x", "5", "1", "2">>>>,
       <<1024, <<"5", "1", "2", "x", "5", "1", "2", "@", "2", "x">>>> >>

\* the ordered (pixel_size, name) pairs of the export loop
sizes ==
    << <<16, <<"1", "6", "x", "1", "6">>>>,
       <<32, <<"1", "6", "x", "1", "6", "@", "2", "x">>>>,
       <<32, <<"3", "2", "x", "3", "2">>>>,
       <<64, <<"3", "2", "x", "3", "2", "@", "2", "x">>>>,
       <<128, <<"1", "2", "8", "x", "1", "2", "8">>>>,
       <<256, <<"1", "2", "8", "x", "1", "2", "8", "@", "2", "x">>>>,
       <<256, <<"2", "5", "6", "x", "2", "5", "6">>>>,
       <<512, <<"2", "5", "6", "x", "2", "5", "6", "@", "2", "x">>>>,
       <<512, <<"5", "1", "2", "x", "5", "1", "2">>>>,
       <<1024, <<"5", "1", "2", "x", "5", "1", "2", "@", "2", "x">>>> >>

IconPrefix == <<"i", "c", "o", "n", "_">>
PngSuffix == <<".", "p", "n", "g">>

\* f'icon_{name}.png', the entry of output_dir an export target is saved as
IconFile(name) == IconPrefix \o name \o PngSuffix

\* the entry of output_dir the manifest is written to
ContentsName == <<"C", "o", "n", "t", "e", "n", "t", "s", ".", "j", "s", "o", "n">>

\* a manifest whose 256x256@2x entry was given the size of the next role
contents_json_drift ==
    [images |-> <<
       [filename |-> <<"i", "c", "o", "n", "_", "1", "6", "x", "1", "6", ".", "p", "n", "g">>,
        idiom |-> "mac", scale |-> <<"1", "x">>, size |-> <<"1", "6", "x", "1", "6">>],
       [filename |-> <<"i", "c", "o", "n", "_", "1", "6", "x", "1", "6", "@", "2", "x", ".", "p", "n", "g">>,
        idiom |-> "mac", scale |-> <<"2", "x">>, size |-> <<"1", "6", "x", "1", "6">>],
       [filename |-> <<"i", "c", "o", "n", "_", "3", "2", "x", "3", "2", ".", "p", "n", "g">>,
        idiom |-> "mac", scale |-> <<"1", "x">>, size |-> <<"3", "2", "x", "3", "2">>],
       [filename |-> <<"i", "c", "o", "n", "_", "3", "2", "x", "3", "2", "@", "2", "x", ".", "p", "n", "g">>,
        idiom |-> "mac", scale |-> <<"2", "x">>, size |-> <<"3", "2", "x", "3", "2">>],
       [filename |-> <<"i", "c", "o", "n", "_", "1", "2", "8", "x", "1", "2", "8", ".", "p", "n", "g">>,
        idiom |-> "mac", scale |-> <<"1", "x">>, size |-> <<"1", "2", "8", "x", "1", "2", "8">>],
       [filename |-> <<"i", "c", "o", "n", "_", "1", "2", "8", "x", "1", "2", "8", "@", "2", "x", ".", "p", "n", "g">>,
        idiom |-> "mac", scale |-> <<"2", "x">>, size |-> <<"1", "2", "8", "x", "1", "2", "8">>],
       [filename |-> <<"i", "c", "o", "n", "_", "2", "5", "6", "x", "2", "5", "6", ".", "p", "n", "g">>,
        idiom |-> "mac", scale |-> <<"1", "x">>, size |-> <<"2", "5", "6", "x", "2", "5", "6">>],
       [filename |-> <<"i", "c", "o", "n", "_", "2", "5", "6", "x", "2", "5", "6", "@", "2", "x", ".", "p", "n", "g">>,
        idiom |-> "mac", scale |-> <<"2", "x">>, size |-> <<"5", "1", "2", "x", "5", "1", "2">>],
       [filename |-> <<"i", "c", "o", "n", "_", "5", "1", "2", "x", "5", "1", "2", ".", "p", "n", "g">>,
        idiom |-> "mac", scale |-> <<"1", "x">>, size |-> <<"5", "1", "2", "x", "5", "1", "2">>],
       [filename |-> <<"i", "c", "o", "n", "_", "5", "1", "2", "x", "5", "1", "2", "@", "2", "x", ".", "p", "n", "g">>,
        idiom |-> "mac", scale |-> <<"2", "x">>, size |-> <<"5", "1", "2", "x", "5", "1", "2">>] >>,
     info |-> [author |-> "xcode", version |-> 1]]

\* the document the literal contents_json holds, as a JSON parser reads it
contents_json ==
    [images |-> <<
       [filename |-> <<"i", "c", "o", "n", "_", "1", "6", "x", "1", "6", ".", "p", "n", "g">>,
        idiom |-> "mac", scale |-> <<"1", "x">>, size |-> <<"1", "6", "x", "1", "6">>],
       [filename |-> <<"i", "c", "o", "n", "_", "1", "6", "x", "1", "6", "@", "2", "x", ".", "p", "n", "g">>,
        idiom |-> "mac", scale |-> <<"2", "x">>, size |-> <<"1", "6", "x", "1", "6">>],
       [filename |-> <<"i", "c", "o", "n", "_", "3", "2", "x", "3", "2", ".", "p", "n", "g">>,
        idiom |-> "mac", scale |-> <<"1", "x">>, size |-> <<"3", "2", "x", "3", "2">>],
       [filename |-> <<"i", "c", "o", "n", "_", "3", "2", "x", "3", "2", "@", "2", "x", ".", "p", "n", "g">>,
        idiom |-> "mac", scale |-> <<"2", "x">>, size |-> <<"3", "2", "x", "3", "2">>],
       [filename |-> <<"i", "c", "o", "n", "_", "1", "2", "8", "x", "1", "2", "8", ".", "p", "n", "g">>,
        idiom |-> "mac", scale |-> <<"1", "x">>, size |-> <<"1", "2", "8", "x", "1", "2", "8">>],
       [filename |-> <<"i", "c", "o", "n", "_", "1", "2", "8", "x", "1", "2", "8", "@", "2", "x", ".", "p", "n", "g">>,
        idiom |-> "mac", scale |-> <<"2", "x">>, size |-> <<"1", "2", "8", "x", "1", "2", "8">>],
       [filename |-> <<"i", "c", "o", "n", "_", "2", "5", "6", "x", "2", "5", "6", ".", "p", "n", "g">>,
        idiom |-> "mac", scale |-> <<"1", "x">>, size |-> <<"2", "5", "6", "x", "2", "5", "6">>],
       [filename |-> <<"i", "c", "o", "n", "_", "2", "5", "6", "x", "2", "5", "6", "@", "2", "x", ".", "p", "n", "g">>,
        idiom |-> "mac", scale |-> <<"2", "x">>, size |-> <<"2", "5", "6", "x", "2", "5", "6">>],
       [filename |-> <<"i", "c", "o", "n", "_", "5", "1", "2", "x", "5", "1", "2", ".", "p", "n", "g">>,
        idiom |-> "mac", scale |-> <<"1", "x">>, size |-> <<"5", "1", "2", "x", "5", "1", "2">>],
       [filename |-> <<"i", "c", "o", "n", "_", "5", "1", "2", "x", "5", "1", "2", "@", "2", "x", ".", "p", "n", "g">>,
        idiom |-> "mac", scale |-> <<"2", "x">>, size |-> <<"5", "1", "2", "x", "5", "1", "2">>] >>,
     info |-> [author |-> "xcode", version |-> 1]]

(***************************************************************************)
(* The output directory.                                                   *)
(***************************************************************************)
\* an entry of the directory that create_app_icon never names
StrayName == <<"n", "o", "t", "e", "s", ".", "t", "x", "t">>

\* the names the export loop saves under, in the order of sizes
IconNames == {IconFile(sizes[k][2]) : k \in 1..Len(sizes)}

\* the names an entry of the directory can have in this model
Names == IconNames \cup {ContentsName, StrayName}

\* content no run of create_app_icon produced
Stale == [kind |-> "stale"]

\* what a write that raised after the file was opened may leave behind
Partial == [kind |-> "partial"]

\* a resize that stamps the image with the number of the run that made it
ResizeStamped(img, pixel_size) ==
    [w |-> pixel_size, h |-> pixel_size, filter |-> "LANCZOS", of |-> img, stamp |-> runs]

\* img.resize((pixel_size, pixel_size), Image.Resampling.LANCZOS): a new image
Resize(img, pixel_size) ==
    [w |-> pixel_size, h |-> pixel_size, filter |-> "LANCZOS", of |-> img]

\* the PNG file image.save writes
PngFile(image) == [kind |-> "png", image |-> image]

\* the text file f.write(contents_json) writes
TextFile(doc) == [kind |-> "text", doc |-> doc]

\* open(name, 'w') and write: the entry is created or replaced, the others kept
WriteFile(dir, name, content) ==
    [n \in (DOMAIN dir) \cup {name} |-> IF n = name THEN content ELSE dir[n]]

\* one thing the process did outside the canvas
Effect(op, name, px) == [op |-> op, name |-> name, px |-> px]

(***************************************************************************)
(* The initial states: the first process has created its canvas (lines 7   *)
(* to 9); the output directory is absent, or present with up to MaxStale   *)
(* entries of any names.                                                   *)
(***************************************************************************)
Init ==
    /\ pc = "background"
    /\ i = 0
    /\ canvas = ImageNew(size, "#2C3E50")
    /\ dirExists \in BOOLEAN
    /\ \E S \in SUBSET Names :
          /\ Cardinality(S) <= MaxStale
          /\ dirExists \/ S = {}
          /\ fs = [n \in S |-> Stale]
    /\ effects = <<>>
    /\ prev = "none"
    /\ runs = 1

(***************************************************************************)
(* Drawing: each action is one draw call on the canvas.                    *)
(***************************************************************************)
DrawStep(from, p, to) ==
    /\ pc = from
    /\ canvas' = Draw(canvas, p)
    /\ pc' = to
    /\ UNCHANGED <<i, dirExists, fs, effects, prev, runs>>

DrawBackground == DrawStep("background", Background, "left_pane")

DrawLeftPane == DrawStep("left_pane", LeftPane, "right_pane")

\* the right pane; the first for loop starts
DrawRightPane ==
    /\ pc = "right_pane"
    /\ canvas' = Draw(canvas, RightPane)
    /\ pc' = "left_files"
    /\ i' = 0
    /\ UNCHANGED <<dirExists, fs, effects, prev, runs>>

\* one iteration of for i in range(5); after the last, the second loop starts
DrawLeftFile ==
    /\ pc = "left_files"
    /\ i < LeftFiles
    /\ canvas' = Draw(canvas, LeftFile(i))
    /\ IF i + 1 < LeftFiles
       THEN i' = i + 1 /\ pc' = pc
       ELSE i' = 0 /\ pc' = "right_files"
    /\ UNCHANGED <<dirExists, fs, effects, prev, runs>>

\* one iteration of for i in range(3)
DrawRightFile ==
    /\ pc = "right_files"
    /\ i < RightFiles
    /\ canvas' = Draw(canvas, RightFile(i))
    /\ IF i + 1 < RightFiles
       THEN i' = i + 1 /\ pc' = pc
       ELSE i' = i /\ pc' = "right_shaft"
    /\ UNCHANGED <<dirExists, fs, effects, prev, runs>>

DrawRightShaft == DrawStep("right_shaft", RightShaft, "right_head")

DrawRightHead == DrawStep("right_head", RightHead, "left_shaft")

DrawLeftShaft == DrawStep("left_shaft", LeftShaft, "left_head")

DrawLeftHead == DrawStep("left_head", LeftHead, "makedirs")

(***************************************************************************)
(* Export: the directory, the loop over sizes, the manifest.  An exception *)
(* is caught nowhere in create_app_icon: it ends the process.              *)
(***************************************************************************)
\* makedirs that first empties a directory it finds
MakeDirsClean ==
    /\ pc = "makedirs"
    /\ dirExists' = TRUE
    /\ fs' = <<>>
    /\ effects' = Append(effects, Effect("makedirs", <<>>, 0))
    /\ pc' = "export"
    /\ i' = 1
    /\ UNCHANGED <<canvas, prev, runs>>

\* os.makedirs(output_dir, exist_ok=True) returns; the export loop starts at
\* the first pair of sizes (i is the position in sizes from here on)
MakeDirs ==
    /\ pc = "makedirs"
    /\ dirExists' = TRUE
    /\ fs' = fs
    /\ effects' = Append(effects, Effect("makedirs", <<>>, 0))
    /\ pc' = "export"
    /\ i' = 1
    /\ UNCHANGED <<canvas, prev, runs>>

\* os.makedirs raises: with exist_ok=True only when no directory is there and
\* none can be made (no permission, a regular file of that name, ...)
MakeDirsFail ==
    /\ pc = "makedirs"
    /\ ~dirExists
    /\ effects' = Append(effects, Effect("raise", <<>>, 0))
    /\ pc' = "failed"
    /\ UNCHANGED <<i, canvas, dirExists, fs, prev, runs>>

\* a loop body that shrinks the canvas itself (as img.thumbnail does) before
\* it saves the copy
ExportOneInPlace ==
    /\ pc = "export"
    /\ i \in 1..Len(sizes)
    /\ dirExists
    /\ LET pixel_size == sizes[i][1]
           name == sizes[i][2]
           resized == Resize(canvas, pixel_size)
       IN  /\ canvas' = [canvas EXCEPT !.w = pixel_size, !.h = pixel_size]
           /\ fs' = WriteFile(fs, IconFile(name), PngFile(resized))
           /\ effects' = effects \o
                  << Effect("resize", <<>>, pixel_size),
                     Effect("save", IconFile(name), pixel_size),
                     Effect("print", IconFile(name), pixel_size) >>
    /\ IF i < Len(sizes)
       THEN i' = i + 1 /\ pc' = pc
       ELSE i' = i /\ pc' = "manifest"
    /\ UNCHANGED <<dirExists, prev, runs>>

\* one iteration of for pixel_size, name in sizes: resize, save, print
ExportOne ==
    /\ pc = "export"
    /\ i \in 1..Len(sizes)
    /\ dirExists
    /\ LET pixel_size == sizes[i][1]
           name == sizes[i][2]
           resized == Resize(canvas, pixel_size)
       IN  /\ fs' = WriteFile(fs, IconFile(name), PngFile(resized))
           /\ effects' = effects \o
                  << Effect("resize", <<>>, pixel_size),
                     Effect("save", IconFile(name), pixel_size),
                     Effect("print", IconFile(name), pixel_size) >>
    /\ IF i < Len(sizes)
       THEN i' = i + 1 /\ pc' = pc
       ELSE i' = i /\ pc' = "manifest"
    /\ UNCHANGED <<canvas, dirExists, prev, runs>>

\* img.resize raises (out of memory): nothing is saved or printed
ResizeFail ==
    /\ pc = "export"
    /\ i \in 1..Len(sizes)
    /\ effects' = Append(effects, Effect("raise", <<>>, sizes[i][1]))
    /\ pc' = "failed"
    /\ UNCHANGED <<i, canvas, dirExists, fs, prev, runs>>

\* a save that logs its error and goes on with the next target
SaveFailSkip ==
    /\ pc = "export"
    /\ i \in 1..Len(sizes)
    /\ LET pixel_size == sizes[i][1]
           name == sizes[i][2]
       IN  effects' = effects \o
               << Effect("resize", <<>>, pixel_size),
                  Effect("raise", IconFile(name), pixel_size) >>
    /\ IF i < Len(sizes)
       THEN i' = i + 1 /\ pc' = pc
       ELSE i' = i /\ pc' = "manifest"
    /\ UNCHANGED <<canvas, dirExists, fs, prev, runs>>

\* resized.save raises: before the file was opened (the entry is as it was),
\* or after (the entry may be left truncated)
SaveFail ==
    /\ pc = "export"
    /\ i \in 1..Len(sizes)
    /\ LET pixel_size == sizes[i][1]
           name == sizes[i][2]
       IN  /\ \/ fs' = fs
              \/ dirExists /\ fs' = WriteFile(fs, IconFile(name), Partial)
           /\ effects' = effects \o
                  << Effect("resize", <<>>, pixel_size),
                     Effect("raise", IconFile(name), pixel_size) >>
    /\ pc' = "failed"
    /\ UNCHANGED <<i, canvas, dirExists, prev, runs>>

\* with open(...) as f: f.write(contents_json), then the closing prints
WriteManifest ==
    /\ pc = "manifest"
    /\ dirExists
    /\ fs' = WriteFile(fs, ContentsName, TextFile(contents_json))
    /\ effects' = effects \o
           << Effect("write", ContentsName, 0), Effect("print", <<>>, 0) >>
    /\ pc' = "done"
    /\ UNCHANGED <<i, canvas, dirExists, prev, runs>>

\* open or write raises: the manifest is as it was, or left truncated
WriteManifestFail ==
    /\ pc = "manifest"
    /\ \/ fs' = fs
       \/ dirExists /\ fs' = WriteFile(fs, ContentsName, Partial)
    /\ effects' = Append(effects, Effect("raise", ContentsName, 0))
    /\ pc' = "failed"
    /\ UNCHANGED <<i, canvas, dirExists, prev, runs>>

\* the script is started again after a process ended: a new canvas (lines 7
\* to 9), the directory as the last process left it
Rerun ==
    /\ pc \in {"done", "failed"}
    /\ runs < MaxRuns
    /\ prev' = (IF pc = "done" THEN "ok" ELSE "failed")
    /\ runs' = runs + 1
    /\ canvas' = ImageNew(size, "#2C3E50")
    /\ i' = 0
    /\ effects' = <<>>
    /\ pc' = "background"
    /\ UNCHANGED <<dirExists, fs>>

Next ==
    \/ DrawBackground
    \/ DrawLeftPane
    \/ DrawRightPane
    \/ DrawLeftFile
    \/ DrawRightFile
    \/ DrawRightShaft
    \/ DrawRightHead
    \/ DrawLeftShaft
    \/ DrawLeftHead
    \/ MakeDirs
    \/ MakeDirsFail
    \/ ExportOne
    \/ ResizeFail
    \/ SaveFail
    \/ WriteManifest
    \/ WriteManifestFail
    \/ Rerun

Spec == Init /\ [][Next]_vars

(***************************************************************************)
(* What the claims speak of.                                               *)
(***************************************************************************)
\* the statements at which the canvas is still being drawn
DrawPcs ==
    {"background", "left_pane", "right_pane", "left_files", "right_files",
     "right_shaft", "right_head", "left_shaft", "left_head"}

\* the effects of the running process with operation op, in order
EffectsOf(op) == SelectSeq(effects, LAMBDA e : e.op = op)

\* the pixel dimensions and role labels of the ten export targets, as listed
TargetDims == <<16, 32, 32, 64, 128, 256, 256, 512, 512, 1024>>

TargetRoles ==
    << <<"1", "6", "x", "1", "6">>,
       <<"1", "6", "x", "1", "6", "@", "2", "x">>,
       <<"3", "2", "x", "3", "2">>,
       <<"3", "2", "x", "3", "2", "@", "2", "x">>,
       <<"1", "2", "8", "x", "1", "2", "8">>,
       <<"1", "2", "8", "x", "1", "2", "8", "@", "2", "x">>,
       <<"2", "5", "6", "x", "2", "5", "6">>,
       <<"2", "5", "6", "x", "2", "5", "6", "@", "2", "x">>,
       <<"5", "1", "2", "x", "5", "1", "2">>,
       <<"5", "1", "2", "x", "5", "1", "2", "@", "2", "x">> >>

\* C1: after a run that completed without error the directory holds, for each
\* of the ten export targets, the file icon_<role>.png, a square image of the
\* target's pixel dimension; the ten role labels, and so the ten file names,
\* are pairwise distinct, and ten saves were made, one per target.
C1_ExportedImages ==
    pc = "done" =>
        /\ Len(TargetDims) = 10 /\ Len(TargetRoles) = 10
        /\ \A k \in 1..10 :
              LET file == IconPrefix \o TargetRoles[k] \o PngSuffix
              IN  /\ file \in DOMAIN fs
                  /\ fs[file].kind = "png"
                  /\ fs[file].image.w = TargetDims[k]
                  /\ fs[file].image.h = TargetDims[k]
                  /\ EffectsOf("save")[k].name = file
        /\ \A j, k \in 1..10 : j # k => TargetRoles[j] # TargetRoles[k]
        /\ Len(EffectsOf("save")) = 10
        /\ Cardinality({EffectsOf("save")[k].name : k \in 1..10}) = 10
        /\ Cardinality({n \in DOMAIN fs :
                           \E k \in 1..10 : n = IconPrefix \o TargetRoles[k] \o PngSuffix}) = 10

\* a first run has completed in a directory that already held another entry:
\* all ten icons are there
C1_Witness ==
    /\ pc = "done"
    /\ runs = 1
    /\ Cardinality({n \in DOMAIN fs : fs[n].kind = "png"}) = 10
    /\ StrayName \in DOMAIN fs

\* C3: every resize of the export loop asks for a pixel dimension that is at
\* most the side of the canvas it resamples (1024): never an up-sampling.
C3_DownsamplingOnly ==
    /\ canvas.w = size /\ canvas.h = size
    /\ \A k \in 1..Len(effects) :
          effects[k].op = "resize" => effects[k].px <= canvas.w /\ effects[k].px <= 1024
    /\ \A n \in DOMAIN fs :
          fs[n].kind = "png" =>
              /\ fs[n].image.w <= fs[n].image.of.w
              /\ fs[n].image.h <= fs[n].image.of.h

\* the loop has resized to the smallest and to the largest target, the
\* identity resize to 1024
C3_Witness ==
    /\ \E k \in 1..Len(effects) : effects[k].op = "resize" /\ effects[k].px = 16
    /\ \E k \in 1..Len(effects) : effects[k].op = "resize" /\ effects[k].px = canvas.w

\* the side a manifest size "NxN" names, and the factor a scale "Nx" names
SideOf(s) == ParseInt(LeadingDigits(s))

\* C2: after a successful run the manifest in the directory has exactly ten
\* image entries; each names a file the export loop of that run saved and
\* that is in the directory, carries the one idiom all entries carry, a scale
\* of "1x" or "2x" and a size "NxN" with N times the scale factor equal to
\* the pixel dimension the loop used for that file; info.version is 1.
C2_ManifestConsistent ==
    pc = "done" =>
        /\ ContentsName \in DOMAIN fs
        /\ fs[ContentsName].kind = "text"
        /\ LET doc == fs[ContentsName].doc
               saves == EffectsOf("save")
           IN  /\ Len(doc.images) = 10
               /\ doc.info.version = 1
               /\ \A k \in 1..Len(doc.images) :
                     LET e == doc.images[k]
                         side == LeadingDigits(e.size)
                     IN  /\ e.idiom = doc.images[1].idiom
                         /\ e.scale \in {<<"1", "x">>, <<"2", "x">>}
                         /\ Len(side) > 0
                         /\ e.size = side \o <<"x">> \o side
                         /\ e.filename \in DOMAIN fs
                         /\ fs[e.filename].kind = "png"
                         /\ \E j \in 1..Len(saves) :
                               /\ saves[j].name = e.filename
                               /\ SideOf(e.size) * SideOf(e.scale) = saves[j].px
                               /\ fs[e.filename].image.w = saves[j].px

\* a run has completed and its manifest holds both a 1x and a 2x entry whose
\* files are in the directory
C2_Witness ==
    /\ pc = "done"
    /\ ContentsName \in DOMAIN fs
    /\ fs[ContentsName].kind = "text"
    /\ \E j, k \in 1..Len(fs[ContentsName].doc.images) :
          /\ fs[ContentsName].doc.images[j].scale = <<"1", "x">>
          /\ fs[ContentsName].doc.images[k].scale = <<"2", "x">>
          /\ fs[ContentsName].doc.images[j].filename \in DOMAIN fs
          /\ fs[ContentsName].doc.images[k].filename \in DOMAIN fs

\* the corners of a primitive, as <<x, y>> pairs
Corners(p) ==
    IF p.shape = "polygon"
    THEN {p.pts[k] : k \in 1..Len(p.pts)}
    ELSE {<<p.xy[1], p.xy[2]>>, <<p.xy[3], p.xy[4]>>}

\* C4: every primitive drawn on the canvas (background panel, panes, bars,
\* arrow shafts and heads) has all its coordinates inside the canvas and
\* inside the rectangle inset by the margin; every rectangle has x0 <= x1
\* and y0 <= y1.
C4_Containment ==
    \A k \in 1..Len(canvas.prims) :
        LET p == canvas.prims[k]
        IN  /\ \A c \in Corners(p) :
                  /\ 0 <= c[1] /\ c[1] <= canvas.w
                  /\ 0 <= c[2] /\ c[2] <= canvas.h
                  /\ margin <= c[1] /\ c[1] <= size - margin
                  /\ margin <= c[2] /\ c[2] <= size - margin
            /\ p.shape # "polygon" => p.xy[1] <= p.xy[3] /\ p.xy[2] <= p.xy[4]

\* the whole scene is drawn: two panes, five and three bars, two shafts and
\* two three-cornered heads
C4_Witness ==
    /\ pc = "makedirs"
    /\ Cardinality({k \in 1..Len(canvas.prims) : canvas.prims[k].fill = "#ECF0F1"}) = 2
    /\ Cardinality({k \in 1..Len(canvas.prims) : canvas.prims[k].fill = "#3498DB"}) = 8
    /\ Cardinality({k \in 1..Len(canvas.prims) : canvas.prims[k].shape = "rectangle"}) = 2
    /\ Cardinality({k \in 1..Len(canvas.prims) :
                       canvas.prims[k].shape = "polygon" /\ Len(canvas.prims[k].pts) = 3}) = 2

SetMax(S) == CHOOSE m \in S : \A x \in S : x <= m

SetMin(S) == CHOOSE m \in S : \A x \in S : m <= x

\* the panes, arrow shafts and arrow heads on the canvas, in drawing order
Panes == SelectSeq(canvas.prims, LAMBDA p : p.fill = pane_color)

Shafts == SelectSeq(canvas.prims, LAMBDA p : p.shape = "rectangle")

Heads == SelectSeq(canvas.prims, LAMBDA p : p.shape = "polygon")

\* the facing edges of the two panes: the gap the arrows are drawn in
GapLeft == Panes[1].xy[3]

GapRight == Panes[2].xy[1]

\* the corners of the k-th arrow, shaft and head together
ArrowCorners(k) == Corners(Shafts[k]) \cup Corners(Heads[k])

ArrowXs(k) == {c[1] : c \in ArrowCorners(k)}

ArrowYs(k) == {c[2] : c \in ArrowCorners(k)}

\* the k-th arrow points to dir ("right" or "left") at height y: its shaft is
\* strictly inside the gap between the panes; the head's base is vertical and
\* meets the shaft's end, the tip is the arrow's outermost point on the side
\* it points to; the base is wider than the shaft; every point of the arrow
\* is strictly between the panes' facing edges, so it overlaps neither pane
ArrowShape(k, dir, y) ==
    LET s == Shafts[k]
        h == Heads[k]
        tip == h.pts[2]
    IN  /\ Len(h.pts) = 3
        /\ s.xy[1] <= s.xy[3] /\ s.xy[2] <= s.xy[4]
        /\ GapLeft < s.xy[1] /\ s.xy[3] < GapRight
        /\ s.xy[2] + s.xy[4] = 2 * y
        /\ h.pts[1][1] = h.pts[3][1]
        /\ tip[2] = y
        /\ IF dir = "right"
           THEN /\ h.pts[1][1] = s.xy[3]
                /\ tip[1] > h.pts[1][1]
                /\ tip[1] = SetMax(ArrowXs(k))
           ELSE /\ h.pts[1][1] = s.xy[1]
                /\ tip[1] < h.pts[1][1]
                /\ tip[1] = SetMin(ArrowXs(k))
        /\ h.pts[3][2] - h.pts[1][2] > (s.xy[4] - s.xy[2]) + 1
        /\ \A x \in ArrowXs(k) : GapLeft < x /\ x < GapRight
        /\ \A c \in ArrowCorners(k) :
              Panes[1].xy[2] <= c[2] /\ c[2] <= Panes[1].xy[4]

\* the original statement of C9: the arrows are shaped as above, point in
\* opposite directions, and their vertical extents do not overlap
C9_Original ==
    /\ Len(Heads) >= 1 => ArrowShape(1, "right", 512)
    /\ Len(Heads) >= 2 =>
          /\ ArrowShape(2, "left", 612)
          /\ SetMax(ArrowYs(1)) < SetMin(ArrowYs(2))

\* C9 (amended): each arrow is shaped as above, the first pointing right at
\* y = 512 and the second left at y = 612; the shafts' vertical extents do
\* not overlap; the arrows' vertical extents have exactly one row in common,
\* y = 562, where each head has one base corner, at different x, so the two
\* arrows have no point in common.
C9_Arrows ==
    /\ Len(Heads) >= 1 => ArrowShape(1, "right", 512)
    /\ Len(Heads) >= 2 =>
          /\ ArrowShape(2, "left", 612)
          /\ Shafts[1].xy[4] < Shafts[2].xy[2]
          /\ SetMax(ArrowYs(1)) = 562
          /\ SetMin(ArrowYs(2)) = 562
          /\ LET low == {c \in ArrowCorners(1) : c[2] = 562}
                 high == {c \in ArrowCorners(2) : c[2] = 562}
             IN  /\ Cardinality(low) = 1
                 /\ Cardinality(high) = 1
                 /\ low \cap high = {}

\* both arrows are on the canvas
C9_Witness ==
    /\ Len(Shafts) = 2
    /\ Len(Heads) = 2
    /\ Len(Panes) = 2
    /\ pc = "makedirs"

\* C5: a run that follows a successful run and itself succeeds leaves the
\* directory as the first run left it: none of its steps changes the set of
\* entries or the content of any entry (each file is rewritten with the same
\* content), whatever the directory held before the first run.
C5_Idempotent ==
    [][(prev = "ok" /\ runs' = runs /\ pc' # "failed")
          => (fs' = fs /\ dirExists' = dirExists)]_vars

\* a second run has completed after a successful first one, in a directory
\* that held other content before
C5_Witness ==
    /\ pc = "done"
    /\ prev = "ok"
    /\ runs = 2
    /\ Len(EffectsOf("save")) = 10
    /\ StrayName \in DOMAIN fs

\* the names saved by the running process so far are those of the first n
\* export targets, in order
SavedPrefix(n) ==
    /\ Len(EffectsOf("save")) = n
    /\ n <= Len(sizes)
    /\ \A k \in 1..n : EffectsOf("save")[k].name = IconFile(sizes[k][2])

\* C6: an exception ends the run: it is the last thing the process does, and
\* a failed process does nothing more to the directory (only a new start of
\* the script follows).  The images a failed run saved are those of the
\* targets before the failing one, in order (none if makedirs failed, all ten
\* if the manifest failed), and a run writes Contents.json only after it
\* saved all ten images without an exception.
C6_FailureAborts ==
    /\ [](/\ \A k \in 1..Len(effects) : effects[k].op = "raise" => k = Len(effects)
          /\ (pc = "failed") <=>
                (effects # <<>> /\ effects[Len(effects)].op = "raise")
          /\ \E n \in 0..Len(sizes) : SavedPrefix(n)
          /\ pc = "failed" =>
                LET last == effects[Len(effects)]
                IN  /\ EffectsOf("makedirs") = <<>> => SavedPrefix(0)
                    /\ (EffectsOf("makedirs") # <<>> /\ last.name # ContentsName) =>
                          /\ i \in 1..Len(sizes)
                          /\ last.px = sizes[i][1]
                          /\ last.name \in {<<>>, IconFile(sizes[i][2])}
                          /\ SavedPrefix(i - 1)
                    /\ last.name = ContentsName => SavedPrefix(Len(sizes))
                    /\ EffectsOf("write") = <<>>
          /\ \A k \in 1..Len(effects) :
                effects[k].op = "write" =>
                    /\ SavedPrefix(Len(sizes))
                    /\ \A j \in 1..k : effects[j].op # "raise"
                    /\ \A j \in 1..Len(effects) : effects[j].op = "save" => j < k)
    /\ [][pc = "failed" =>
             (runs' = runs + 1 /\ fs' = fs /\ dirExists' = dirExists)]_vars

\* the save of the fourth target failed and left its file truncated: three
\* images were saved by this run
C6_Witness ==
    /\ pc = "failed"
    /\ i = 4
    /\ SavedPrefix(3)
    /\ IconFile(sizes[4][2]) \in DOMAIN fs
    /\ fs[IconFile(sizes[4][2])] = Partial

\* the entries create_app_icon writes
OutputNames == IconNames \cup {ContentsName}

\* C7: no step of a run deletes an entry or the directory, and no step
\* creates or changes an entry other than the ten icon files and
\* Contents.json; makedirs does not fail on a directory that exists; when a
\* run completes the directory exists and each of the eleven files holds the
\* content this run generated, whether or not the name existed before.
C7_FrameOfRun ==
    [][/\ DOMAIN fs \subseteq DOMAIN fs'
       /\ DOMAIN fs' \subseteq (DOMAIN fs) \cup OutputNames
       /\ \A n \in (DOMAIN fs) \ OutputNames : fs'[n] = fs[n]
       /\ dirExists => dirExists'
       /\ (pc = "makedirs" /\ dirExists) => pc' = "export"
       /\ pc' = "done" =>
             /\ dirExists'
             /\ \A k \in 1..Len(sizes) :
                   /\ IconFile(sizes[k][2]) \in DOMAIN fs'
                   /\ fs'[IconFile(sizes[k][2])] = PngFile(Resize(canvas, sizes[k][1]))
             /\ ContentsName \in DOMAIN fs'
             /\ fs'[ContentsName] = TextFile(contents_json)
      ]_vars

\* a first run has completed in a directory that held an entry of another
\* name, which is still there with its old content
C7_Witness ==
    /\ pc = "done"
    /\ runs = 1
    /\ StrayName \in DOMAIN fs
    /\ fs[StrayName] = Stale
    /\ Cardinality(DOMAIN fs) = Cardinality(OutputNames) + 1

\* a is the start of b
IsPrefix(a, b) == Len(a) <= Len(b) /\ a = SubSeq(b, 1, Len(a))

\* C8: rendering is the same in every process: the canvas a process has
\* drawn so far is the start of, and once drawing is over equal to, the
\* canvas every image in the directory was resized from, whichever process
\* (this one or an earlier one, in whatever directory it started) saved it;
\* and while a process draws it does nothing outside the canvas: no effect
\* is recorded and no step changes the directory.
C8_RenderDeterministic ==
    /\ [](/\ \A n \in DOMAIN fs :
                fs[n].kind = "png" =>
                    /\ fs[n].image.of.w = canvas.w
                    /\ fs[n].image.of.h = canvas.h
                    /\ fs[n].image.of.fill = canvas.fill
                    /\ IsPrefix(canvas.prims, fs[n].image.of.prims)
                    /\ pc \notin DrawPcs => fs[n].image.of = canvas
          /\ pc \in DrawPcs => effects = <<>>)
    /\ [][(pc \in DrawPcs) =>
             (fs' = fs /\ dirExists' = dirExists /\ effects' = effects)]_vars

\* a later process has finished drawing in a directory that holds images an
\* earlier process saved
C8_Witness ==
    /\ runs > 1
    /\ pc = "makedirs"
    /\ effects = <<>>
    /\ \E n \in DOMAIN fs : fs[n].kind = "png" /\ fs[n].image.of = canvas

\* the whole scene is on the canvas: the panel, two panes, the bars of both
\* panes, two shafts and two heads
SceneComplete ==
    /\ Len(canvas.prims) = 1 + 2 + LeftFiles + RightFiles + 4
    /\ Len(Panes) = 2
    /\ Len(Shafts) = 2
    /\ Len(Heads) = 2
    /\ Len(SelectSeq(canvas.prims, LAMBDA p : p.fill = accent_color)) = LeftFiles + RightFiles

\* C10: a process does nothing outside the canvas before the scene is
\* complete, and no step after that changes the canvas; the first thing it
\* does outside is makedirs, and the directory exists whenever an entry is
\* written; every save comes right after the resize to its pixel dimension
\* and right before its print, the k-th save being that of the k-th target;
\* the manifest is written after the tenth save; every image a process has
\* saved was resized from the one complete canvas.
C10_StepOrder ==
    /\ [](/\ effects # <<>> => (pc \notin DrawPcs /\ SceneComplete)
          /\ effects # <<>> => effects[1].op \in {"makedirs", "raise"}
          /\ \A k \in 1..Len(effects) :
                /\ effects[k].op = "makedirs" => k = 1
                /\ effects[k].op = "save" =>
                      /\ k > 2
                      /\ effects[1].op = "makedirs"
                      /\ effects[k - 1].op = "resize"
                      /\ effects[k - 1].px = effects[k].px
                      /\ k < Len(effects)
                      /\ effects[k + 1].op = "print"
                      /\ effects[k + 1].name = effects[k].name
                      /\ effects[k].name \in DOMAIN fs
                      /\ fs[effects[k].name] = PngFile(Resize(canvas, effects[k].px))
                /\ effects[k].op = "write" =>
                      /\ k = 1 + 3 * Len(sizes) + 1
                      /\ effects[k - 1].op = "print"
                      /\ effects[k - 2].op = "save"
                      /\ effects[k - 2].name = IconFile(sizes[Len(sizes)][2])
          /\ \E n \in 0..Len(sizes) : SavedPrefix(n)
          /\ pc \in {"manifest", "done"} => SavedPrefix(Len(sizes)))
    /\ [][/\ canvas' # canvas =>
                (runs' = runs + 1 \/ (pc \in DrawPcs /\ effects = <<>> /\ effects' = <<>>))
          /\ fs' # fs => (dirExists /\ effects # <<>> /\ effects[1].op = "makedirs")
         ]_vars

\* a first run has completed: makedirs, ten times resize, save and print,
\* then the manifest and the closing print
C10_Witness ==
    /\ pc = "done"
    /\ runs = 1
    /\ Len(effects) = 1 + 3 * 10 + 2
    /\ effects[Len(effects) - 1].op = "write"
    /\ SceneComplete

====
